---- MODULE Spec2Model ----
(***************************************************************************)
(* Jira automation framework: the command handlers of cli.py, the          *)
(* TaskManager operations they call and the JiraClient gateway calls those *)
(* make.  One run of the program executes one command.  Every gateway call *)
(* is a step whose outcome the ticketing service decides: it succeeds,     *)
(* reports a failure, or raises.                                           *)
(***************************************************************************)
EXTENDS Integers, Sequences, FiniteSets, TLC

\* Bounds of the model.
MaxRows == 2
MaxAtt == 2

Tickets == {"T1", "T2"}
Idents == {"f", "g"}

\* cli.py:32
RequiredKeys == {"jira_base_url", "jira_username", "jira_api_token"}

\* The commands main() registers, plus upload_command (cli.py:40), which is
\* defined but not registered.
Commands == {"upload-multiple", "upload", "delete-attachments", "add-comment",
             "delete-comment", "download-attachments", "upload_command"}

VARIABLES
    command,            \* the command of this run
    issue_key,          \* --issue-key of a single-issue command
    arg_file,           \* --file-path of a single-issue command (an identifier)
    config_exists,      \* config.json exists
    config,             \* config.json: required key -> "absent", "" (empty) or "set"
    ticket_file_exists, \* --ticket-file / --csv-file exists
    folder_exists,      \* --folder exists and is a directory
    rows,               \* the rows of the CSV, each [Ticket, Fn]; "" is an empty or absent field
    files,              \* the identifiers whose <folder>/<identifier>_v0.csv exists
    jira,               \* ticket -> sequence of attachments <<ticket, filename>> on the server
    pc,                 \* position of the run
    client,             \* a JiraClient has been constructed
    file_mappings,      \* the dict of cli.py:153, in insertion order: <<function_name, ticket>>
    idx,                \* mapping entries (or CSV rows) whose iteration has completed
    entered,            \* mapping entries whose iteration has begun
    uploaded_count,
    skipped_count,
    skipped_entries,
    summary,            \* the summary report has been printed
    calls,              \* every gateway call so far: [op, key, out], out what the client gave back
    op,                 \* the TaskManager operation in progress or last called
    op_ticket,
    op_file,
    op_start,           \* Len(calls) when the operation was called
    op_result,          \* what the operation gave its caller: "None", "True", "False", "raised"
    da_result,          \* what delete_attachments returned inside the operation
    issue_atts,         \* the attachment list of the issue get_issue returned
    todo,               \* the attachments the current loop has still to visit
    exc,                \* the exception raised in the handler's try block, "none" if none
    error_printed,      \* the exception the handler's except clause printed
    missing_reported,   \* the keys the ValueError of load_and_validate_config enumerates
    written,            \* the filenames written to the target folder
    dl_log              \* download: every <<ticket, filename>> download_attachment was called with

vars == <<command, issue_key, arg_file, config_exists, config, ticket_file_exists,
          folder_exists, rows, files, jira, pc, client, file_mappings, idx, entered,
          uploaded_count, skipped_count, skipped_entries, summary, calls, op,
          op_ticket, op_file, op_start, op_result, da_result, issue_atts, todo, exc,
          error_printed, missing_reported, written, dl_log>>

env == <<command, issue_key, arg_file, config_exists, config, ticket_file_exists,
         folder_exists, rows, files>>

batch == <<file_mappings, idx, entered, uploaded_count, skipped_count,
           skipped_entries, summary>>

----------------------------------------------------------------------------
\* Helpers.

SeqsUpTo(S, n) == UNION {[1..k -> S] : k \in 0..n}

RowValues == [Ticket : Tickets \cup {""}, Fn : Idents \cup {""}]

\* The attachments a ticket starts with: its first k of a1, a2, ...
AttNames == <<"a1", "a2", "a3", "a4">>
InitialAtts(t, k) == [i \in 1..k |-> <<t, AttNames[i]>>]
\* T1 starts with up to MaxAtt attachments, T2 with at most one.
JiraStates == {[t \in Tickets |-> InitialAtts(t, k[t])] :
                   k \in {n \in [Tickets -> 0..MaxAtt] : n["T2"] <= 1}}

Filename(att) == att[2]

\* Python truthiness of a CSV field (None and "" are both falsy).
Truthy(s) == s # ""

Call(o, k, out) == [op |-> o, key |-> k, out |-> out]

\* The calls the operation in progress has made.
OpCalls == SubSeq(calls, op_start + 1, Len(calls))

RECURSIVE SelectOps(_, _)
SelectOps(s, ops) ==
    IF s = <<>> THEN <<>>
    ELSE IF Head(s).op \in ops THEN <<Head(s)>> \o SelectOps(Tail(s), ops)
         ELSE SelectOps(Tail(s), ops)

\* jira_client.py:23-38: a DELETE answered 204 has removed the attachment.
RemoveNothing(s, x) == s

RECURSIVE Remove(_, _)
Remove(s, x) ==
    IF s = <<>> THEN <<>>
    ELSE IF Head(s) = x THEN Tail(s) ELSE <<Head(s)>> \o Remove(Tail(s), x)

----------------------------------------------------------------------------
\* cli.py:153-160: file_mappings[function_name] = ticket on a dict that keeps
\* insertion order; assigning an existing key replaces its value in place.
DictSetKeepFirst(m, k, v) ==
    IF \E i \in 1..Len(m) : m[i][1] = k THEN m ELSE Append(m, <<k, v>>)

DictSet(m, k, v) ==
    IF \E i \in 1..Len(m) : m[i][1] = k
    THEN [i \in 1..Len(m) |-> IF m[i][1] = k THEN <<k, v>> ELSE m[i]]
    ELSE Append(m, <<k, v>>)

RECURSIVE ParseMappings(_, _)
ParseMappings(rs, m) ==
    IF rs = <<>> THEN m
    ELSE ParseMappings(Tail(rs),
                       IF Truthy(Head(rs).Ticket) /\ Truthy(Head(rs).Fn)
                       THEN DictSet(m, Head(rs).Fn, Head(rs).Ticket)
                       ELSE m)

\* What config.json can hold for a key: nothing, an empty value, a value.
ConfigValues == {"absent", "", "set"}

\* cli.py:33: key not in config or not config[key]
MissingKeysAbsentOnly == {key \in RequiredKeys : config[key] = "absent"}

MissingKeys == {key \in RequiredKeys : config[key] = "absent" \/ ~Truthy(config[key])}

\* jira_client.py:7-15: the constructor builds the SDK client and the headers
\* and sends nothing.
ClientInitProbe == <<Call("myself", "", "ok")>>

ClientInitCalls == <<>>

----------------------------------------------------------------------------
\* The inputs of a run.  A run whose configuration is rejected reads nothing
\* else, so its other inputs are fixed: one valid row whose file is present.
DefaultRows == <<[Ticket |-> "T1", Fn |-> "f"]>>

Init ==
    /\ command \in Commands
    /\ config_exists \in BOOLEAN
    /\ config \in IF config_exists THEN [RequiredKeys -> ConfigValues]
                 ELSE {[key \in RequiredKeys |-> "absent"]}
    /\ issue_key \in Tickets
    /\ arg_file = "f"
    /\ IF config = [key \in RequiredKeys |-> "set"]
       THEN /\ jira \in JiraStates
            /\ IF command \in {"upload-multiple", "download-attachments"}
               THEN /\ issue_key = "T1"
                    /\ ticket_file_exists \in BOOLEAN
                    /\ folder_exists \in BOOLEAN
                    /\ rows \in IF ticket_file_exists
                                THEN IF command = "upload-multiple"
                                     THEN SeqsUpTo(RowValues, MaxRows)
                                     ELSE SeqsUpTo({r \in RowValues : r.Fn = "f"}, MaxRows)
                                ELSE {<<>>}
                    /\ files \in IF folder_exists /\ command = "upload-multiple"
                                 THEN SUBSET Idents ELSE {{}}
               ELSE /\ ticket_file_exists = FALSE /\ folder_exists = FALSE
                    /\ rows = <<>> /\ files = {"f"}
       ELSE /\ jira = [t \in Tickets |-> InitialAtts(t, 1)]
            /\ ticket_file_exists = TRUE /\ folder_exists = TRUE
            /\ rows = DefaultRows /\ files = {"f"}
    /\ pc = "start"
    /\ client = FALSE
    /\ file_mappings = <<>>
    /\ idx = 0 /\ entered = 0
    /\ uploaded_count = 0 /\ skipped_count = 0 /\ skipped_entries = <<>>
    /\ summary = FALSE
    /\ calls = <<>>
    /\ op = "none" /\ op_ticket = "" /\ op_file = "" /\ op_start = 0
    /\ op_result = "none" /\ da_result = "none"
    /\ issue_atts = <<>> /\ todo = <<>>
    /\ exc = "none" /\ error_printed = "none" /\ missing_reported = {}
    /\ written = {} /\ dl_log = <<>>

----------------------------------------------------------------------------
\* Calling a TaskManager operation: where its code starts.
OpEntry(o) ==
    CASE o = "clean_and_upload" -> "da_get"
      [] o = "delete_attachments" -> "da_get"
      [] o = "upload_attachment" -> "ua_add"
      [] o = "add_comment_to_issue" -> "ac_add"
      [] o = "delete_comment_from_issue" -> "dc_del"
      [] o = "download_attachments_from_csv" -> "dl_open"

\* The operation each single-issue handler calls (cli.py:62, 90, 118, 220, 249, 275).
HandlerOp ==
    CASE command = "upload_command" -> "clean_and_upload"
      [] command = "upload" -> "upload_attachment"
      [] command = "delete-attachments" -> "delete_attachments"
      [] command = "add-comment" -> "add_comment_to_issue"
      [] command = "delete-comment" -> "delete_comment_from_issue"
      [] command = "download-attachments" -> "download_attachments_from_csv"
      [] OTHER -> "none"

CallOp(o, t, f) ==
    /\ op' = o /\ op_ticket' = t /\ op_file' = f
    /\ op_start' = Len(calls')
    /\ op_result' = "none" /\ da_result' = "none"
    /\ issue_atts' = <<>> /\ todo' = <<>>
    /\ pc' = OpEntry(o)

opvars == <<op, op_ticket, op_file, op_start, op_result, da_result, issue_atts, todo>>

\* An exception leaves the TaskManager operation and lands in the handler's
\* except clause.
Propagate(kind) ==
    /\ op_result' = "raised"
    /\ exc' = kind
    /\ pc' = "except"

\* cli.py:10-37 and the head of every handler (e.g. cli.py:131-142): load the
\* configuration, construct the client; a single-issue handler then calls its
\* operation.
LoadConfig ==
    /\ pc = "start"
    /\ UNCHANGED <<env, jira, batch, error_printed, written, dl_log>>
    /\ IF ~config_exists
       THEN /\ exc' = "FileNotFoundError" /\ pc' = "except"
            /\ UNCHANGED <<client, calls, opvars, missing_reported>>
       ELSE IF MissingKeys # {}
       THEN /\ exc' = "ValueError" /\ pc' = "except"
            /\ missing_reported' = MissingKeys
            /\ UNCHANGED <<client, calls, opvars>>
       ELSE /\ client' = TRUE
            /\ calls' = calls \o ClientInitCalls
            /\ UNCHANGED <<exc, missing_reported>>
            /\ IF command = "upload-multiple"
               THEN pc' = "parse" /\ UNCHANGED opvars
               ELSE CallOp(HandlerOp, issue_key, arg_file)

----------------------------------------------------------------------------
\* upload-multiple, cli.py:144-163: check the two paths, read the CSV into
\* file_mappings, refuse an empty table.
ParseTicketFile ==
    /\ pc = "parse"
    /\ UNCHANGED <<env, jira, client, calls, opvars, error_printed, missing_reported,
                   written, dl_log, idx, entered, uploaded_count, skipped_count,
                   skipped_entries, summary>>
    /\ IF ~ticket_file_exists \/ ~folder_exists
       THEN /\ exc' = "FileNotFoundError" /\ pc' = "except"
            /\ UNCHANGED file_mappings
       ELSE /\ file_mappings' = ParseMappings(rows, <<>>)
            /\ IF file_mappings' = <<>>
               THEN exc' = "ValueError" /\ pc' = "except"
               ELSE pc' = "loop" /\ UNCHANGED exc

\* cli.py:174: file_path.exists()
FileExists(function_name) == function_name \in files

\* cli.py:170-181: the next mapping entry: skipped when its file is absent,
\* otherwise handed to clean_and_upload.
LoopEntry ==
    /\ pc = "loop"
    /\ idx < Len(file_mappings)
    /\ LET function_name == file_mappings[idx + 1][1]
           ticket == file_mappings[idx + 1][2]
       IN /\ entered' = entered + 1
          /\ UNCHANGED <<env, jira, client, calls, file_mappings, uploaded_count,
                         summary, exc, error_printed, missing_reported, written, dl_log>>
          /\ IF ~FileExists(function_name)
             THEN /\ skipped_count' = skipped_count + 1
                  /\ skipped_entries' = Append(skipped_entries, <<function_name, ticket>>)
                  /\ idx' = idx + 1
                  /\ UNCHANGED <<pc, opvars>>
             ELSE /\ CallOp("clean_and_upload", ticket, function_name)
                  /\ UNCHANGED <<skipped_count, skipped_entries, idx>>

\* cli.py:181-183: "uploaded_count += 1" follows the call unconditionally.
UploadedIncrementIfTruthy(result) == IF result = "True" THEN 1 ELSE 0

UploadedIncrement(result) == 1

\* cli.py:182-183: clean_and_upload returned; whatever it returned is dropped.
CountUploaded ==
    /\ pc = "op_ret"
    /\ command = "upload-multiple"
    /\ uploaded_count' = uploaded_count + UploadedIncrement(op_result)
    /\ idx' = idx + 1
    /\ pc' = "loop"
    /\ UNCHANGED <<env, jira, client, calls, opvars, file_mappings, entered,
                   skipped_count, skipped_entries, summary, exc, error_printed,
                   missing_reported, written, dl_log>>

\* cli.py:185-193: the summary report after the last entry.
PrintSummary ==
    /\ pc = "loop"
    /\ idx = Len(file_mappings)
    /\ summary' = TRUE
    /\ pc' = "done"
    /\ UNCHANGED <<env, jira, client, calls, opvars, file_mappings, idx, entered,
                   uploaded_count, skipped_count, skipped_entries, exc, error_printed,
                   missing_reported, written, dl_log>>

\* The end of a single-issue handler's try block (e.g. cli.py:63).
HandlerReturn ==
    /\ pc = "op_ret"
    /\ command # "upload-multiple"
    /\ pc' = "done"
    /\ UNCHANGED <<env, jira, client, calls, opvars, batch, exc, error_printed,
                   missing_reported, written, dl_log>>

\* cli.py:65, 93, 121, 195, 223, 252, 277: "except Exception" catches every
\* exception the try block can raise.
CatchesValueErrorOnly(kind) == kind = "ValueError"

Catches(kind) == TRUE

\* The except clause of every handler (e.g. cli.py:195-196): print and
\* return; an exception the clause does not catch escapes to main.
HandlerExcept ==
    /\ pc = "except"
    /\ IF Catches(exc)
       THEN error_printed' = exc /\ pc' = "done"
       ELSE pc' = "escaped" /\ UNCHANGED error_printed
    /\ UNCHANGED <<env, jira, client, calls, opvars, batch, exc, missing_reported,
                   written, dl_log>>

----------------------------------------------------------------------------
\* TaskManager operations.  Outcomes of the SDK calls get_issue and
\* add_attachment (jira_client.py:17-18, 48-49), which the client passes through.
SdkOutcomes == {"ok", "none", "raise"}

\* task_manager.py:22-23: clean_and_upload uploads exactly when
\* delete_attachments returned True, and returns None either way.
CleanAndUploadInverted(deleted) == IF deleted THEN "op_ret" ELSE "ua_add"

CleanAndUploadNext(deleted) == IF deleted THEN "ua_add" ELSE "op_ret"

\* Where delete_attachments' return leads, and what the operation has then
\* given its caller: the boolean itself for delete_attachments.
AfterDeleteAttachments(deleted) ==
    IF op = "clean_and_upload" THEN CleanAndUploadNext(deleted) ELSE "op_ret"

ResultAfterDeleteAttachments(deleted) ==
    IF op = "clean_and_upload"
    THEN IF AfterDeleteAttachments(deleted) = "op_ret" THEN "None" ELSE "none"
    ELSE IF deleted THEN "True" ELSE "False"

\* task_manager.py:32-37: fetch the issue; a falsy issue ends delete_attachments
\* with False, and clean_and_upload (task_manager.py:22-23) then returns None
\* without uploading.
GetIssue ==
    /\ pc = "da_get"
    /\ UNCHANGED <<env, jira, client, batch, op, op_ticket, op_file, op_start,
                   error_printed, missing_reported, written, dl_log>>
    /\ \E out \in SdkOutcomes :
        /\ calls' = Append(calls, Call("get_issue", op_ticket, out))
        /\ CASE out = "ok" ->
                  /\ issue_atts' = jira[op_ticket]
                  /\ todo' = jira[op_ticket]
                  /\ pc' = "da_del"
                  /\ UNCHANGED <<op_result, da_result, exc>>
             [] out = "none" ->
                  /\ da_result' = "False"
                  /\ op_result' = ResultAfterDeleteAttachments(FALSE)
                  /\ pc' = AfterDeleteAttachments(FALSE)
                  /\ UNCHANGED <<issue_atts, todo, exc>>
             [] out = "raise" ->
                  /\ Propagate("HTTPError")
                  /\ UNCHANGED <<issue_atts, todo, da_result>>

\* jira_client.py:23-45: DELETE the attachment; 204 is success, any other
\* status and any exception give False.
DeleteOutcomes == {"ok", "fail", "raise"}
DeleteAttachmentResult(out) == out = "ok"

\* task_manager.py:38-42: the loop goes on to the next attachment whether or
\* not the delete succeeded.
RestAfterDeleteBreak(deleted, rest) == IF deleted THEN rest ELSE <<>>

RestAfterDelete(deleted, rest) == rest

\* task_manager.py:38-42: one iteration of the loop over the issue's attachments.
DeleteAttachment ==
    /\ pc = "da_del"
    /\ todo # <<>>
    /\ UNCHANGED <<env, client, batch, op, op_ticket, op_file, op_start, op_result,
                   da_result, issue_atts, pc, exc, error_printed, missing_reported,
                   written, dl_log>>
    /\ \E out \in DeleteOutcomes :
        /\ calls' = Append(calls, Call("delete_attachment", Head(todo),
                                       IF DeleteAttachmentResult(out) THEN "True" ELSE "False"))
        /\ jira' = IF DeleteAttachmentResult(out)
                   THEN [jira EXCEPT ![op_ticket] = Remove(@, Head(todo))]
                   ELSE jira
        /\ todo' = RestAfterDelete(DeleteAttachmentResult(out), Tail(todo))

\* task_manager.py:43: delete_attachments returns True; clean_and_upload
\* (task_manager.py:22-23) goes on to upload_attachment.
DeleteAttachmentsReturn ==
    /\ pc = "da_del"
    /\ todo = <<>>
    /\ da_result' = "True"
    /\ op_result' = ResultAfterDeleteAttachments(TRUE)
    /\ pc' = AfterDeleteAttachments(TRUE)
    /\ UNCHANGED <<env, jira, client, batch, calls, op, op_ticket, op_file, op_start,
                   issue_atts, todo, exc, error_printed, missing_reported, written,
                   dl_log>>

\* task_manager.py:53-58: upload_attachment; clean_and_upload drops its result.
AddAttachment ==
    /\ pc = "ua_add"
    /\ UNCHANGED <<env, client, batch, op, op_ticket, op_file, op_start, da_result,
                   issue_atts, todo, error_printed, missing_reported, written, dl_log>>
    /\ \E out \in SdkOutcomes :
        /\ calls' = Append(calls, Call("add_attachment", op_ticket, out))
        /\ CASE out = "ok" ->
                  /\ jira' = [jira EXCEPT ![op_ticket] = Append(@, <<op_ticket, op_file>>)]
                  /\ op_result' = IF op = "clean_and_upload" THEN "None" ELSE "True"
                  /\ pc' = "op_ret"
                  /\ UNCHANGED exc
             [] out = "none" ->
                  /\ op_result' = IF op = "clean_and_upload" THEN "None" ELSE "False"
                  /\ pc' = "op_ret"
                  /\ UNCHANGED <<jira, exc>>
             [] out = "raise" ->
                  /\ Propagate("HTTPError")
                  /\ UNCHANGED jira

\* task_manager.py:68-69 with jira_client.py:51-62: the SDK's response is
\* dereferenced unchecked, so a None response raises AttributeError.
AddComment ==
    /\ pc = "ac_add"
    /\ UNCHANGED <<env, jira, client, batch, op, op_ticket, op_file, op_start,
                   da_result, issue_atts, todo, error_printed, missing_reported,
                   written, dl_log>>
    /\ \E out \in SdkOutcomes :
        /\ calls' = Append(calls, Call("add_comment", op_ticket, out))
        /\ CASE out = "ok" ->
                  op_result' = "None" /\ pc' = "op_ret" /\ UNCHANGED exc
             [] out = "none" -> Propagate("AttributeError")
             [] out = "raise" -> Propagate("HTTPError")

\* task_manager.py:79-82 with jira_client.py:77-96: requests.delete outside
\* any try; 204 is success, another status a failure, both end in None.
DeleteComment ==
    /\ pc = "dc_del"
    /\ UNCHANGED <<env, jira, client, batch, op, op_ticket, op_file, op_start,
                   da_result, issue_atts, todo, error_printed, missing_reported,
                   written, dl_log>>
    /\ \E out \in DeleteOutcomes :
        /\ calls' = Append(calls, Call("delete_comment", op_ticket, out))
        /\ IF out = "raise"
           THEN Propagate("ConnectionError")
           ELSE op_result' = "None" /\ pc' = "op_ret" /\ UNCHANGED exc

----------------------------------------------------------------------------
\* download_attachments_from_csv, task_manager.py:95-101 and 125-126: create
\* the target folder and open the CSV; a failure is printed and the
\* operation returns None.
DownloadOpen ==
    /\ pc = "dl_open"
    /\ IF ticket_file_exists
       THEN pc' = "dl_row" /\ UNCHANGED op_result
       ELSE pc' = "op_ret" /\ op_result' = "None"
    /\ UNCHANGED <<env, jira, client, batch, calls, op, op_ticket, op_file, op_start,
                   da_result, issue_atts, todo, exc, error_printed, missing_reported,
                   written, dl_log>>

\* jira_client.py:112-135: the attachment list of the issue; [] on a status
\* other than 200 and on any exception.
GetAttachmentsOutcomes == {"ok", "non200", "raise"}
GetAttachmentsResult(out, t) == IF out = "ok" THEN jira[t] ELSE <<>>

\* task_manager.py:103-116: the next CSV row: skipped without a ticket or
\* without attachments.
DownloadRow ==
    /\ pc = "dl_row"
    /\ idx < Len(rows)
    /\ UNCHANGED <<env, jira, client, file_mappings, entered, uploaded_count,
                   skipped_count, skipped_entries, summary, op, op_file, op_start,
                   op_result, da_result, exc, error_printed, missing_reported,
                   written, dl_log>>
    /\ LET ticket == rows[idx + 1].Ticket
       IN IF ~Truthy(ticket)
          THEN /\ idx' = idx + 1
               /\ UNCHANGED <<calls, op_ticket, issue_atts, todo, pc>>
          ELSE \E out \in GetAttachmentsOutcomes :
                LET attachments == GetAttachmentsResult(out, ticket)
                IN /\ calls' = Append(calls, Call("get_attachments", ticket,
                                                  IF out = "ok" THEN "ok" ELSE "empty"))
                   /\ op_ticket' = ticket
                   /\ issue_atts' = attachments
                   /\ todo' = attachments
                   /\ IF attachments = <<>>
                      THEN idx' = idx + 1 /\ UNCHANGED pc
                      ELSE pc' = "dl_att" /\ UNCHANGED idx

\* jira_client.py:137-164: GET the content and write it; a status other than
\* 200 and every exception (the request's, open's, write's) is printed and
\* swallowed.  A failing write leaves the file it opened.
DownloadOutcomes == {"ok", "non200", "raise", "open_error", "write_error"}
FileAfterDownload(out) == out \in {"ok", "write_error"}

\* task_manager.py:119-123: the loop goes on to the next attachment after a
\* download that failed.
RestAfterDownloadAbort(out, rest) == IF out = "ok" THEN rest ELSE <<>>

RestAfterDownload(out, rest) == rest

\* task_manager.py:119-123: one iteration of the loop over the attachments.
DownloadAttachment ==
    /\ pc = "dl_att"
    /\ todo # <<>>
    /\ UNCHANGED <<env, jira, client, file_mappings, entered, uploaded_count,
                   skipped_count, skipped_entries, summary, op, op_ticket, op_file,
                   op_start, op_result, da_result, issue_atts, exc, error_printed,
                   missing_reported>>
    /\ \E out \in DownloadOutcomes :
        /\ calls' = Append(calls, Call("download_attachment", Head(todo),
                                       IF out = "ok" THEN "ok" ELSE "fail"))
        /\ dl_log' = Append(dl_log, Head(todo))
        /\ written' = IF FileAfterDownload(out)
                      THEN written \cup {Filename(Head(todo))} ELSE written
        /\ todo' = RestAfterDownload(out, Tail(todo))
        /\ IF todo' = <<>>
           THEN pc' = "dl_row" /\ idx' = idx + 1
           ELSE UNCHANGED <<pc, idx>>

\* The CSV is exhausted: download_attachments_from_csv returns None.
DownloadReturn ==
    /\ pc = "dl_row"
    /\ idx = Len(rows)
    /\ op_result' = "None"
    /\ pc' = "op_ret"
    /\ UNCHANGED <<env, jira, client, batch, calls, op, op_ticket, op_file, op_start,
                   da_result, issue_atts, todo, exc, error_printed, missing_reported,
                   written, dl_log>>

----------------------------------------------------------------------------
Next ==
    \/ LoadConfig
    \/ ParseTicketFile
    \/ LoopEntry
    \/ CountUploaded
    \/ PrintSummary
    \/ HandlerReturn
    \/ HandlerExcept
    \/ GetIssue
    \/ DeleteAttachment
    \/ DeleteAttachmentsReturn
    \/ AddAttachment
    \/ AddComment
    \/ DeleteComment
    \/ DownloadOpen
    \/ DownloadRow
    \/ DownloadAttachment
    \/ DownloadReturn

Spec == Init /\ [][Next]_vars

----------------------------------------------------------------------------
\* Vocabulary of the properties.

ConfigOk == config_exists /\ \A key \in RequiredKeys : config[key] = "set"

\* The upload batch got as far as a non-empty mapping table.
BatchRan == command = "upload-multiple" /\ file_mappings # <<>>

\* The rows with a non-empty Ticket and a non-empty Function name.
ValidRowIdx == {i \in 1..Len(rows) : rows[i].Ticket # "" /\ rows[i].Fn # ""}
\* N and M of the batch: valid rows, and valid rows whose file is on disk.
NValid == Cardinality(ValidRowIdx)
MPresent == Cardinality({i \in ValidRowIdx : rows[i].Fn \in files})

Ops(s) == [i \in 1..Len(s) |-> s[i].op]
Keys(s) == [i \in 1..Len(s) |-> s[i].key]

\* The operation in progress found its issue: get_issue returned one.
IssueFound == OpCalls # <<>> /\ OpCalls[1] = Call("get_issue", op_ticket, "ok")

\* No two valid rows name the same identifier.
DistinctIdents == \A i, j \in ValidRowIdx : rows[i].Fn = rows[j].Fn => i = j

\* C1: at the end of an upload batch over a CSV with N valid rows of which M
\* have their file on disk, uploaded_count = M, skipped_count = N - M and the
\* skipped list has N - M entries.  Stated for the CSVs whose valid rows name
\* distinct identifiers, where rows and mapping entries coincide.
C1_CountsMatchRows ==
    (BatchRan /\ DistinctIdents /\ pc = "done") =>
        /\ uploaded_count = MPresent
        /\ skipped_count = NValid - MPresent
        /\ Len(skipped_entries) = NValid - MPresent

\* C2: the upload batch never aborts on one entry's failure: at its end every
\* mapping entry has been processed and the summary has been printed.
C2_BatchNeverAborts ==
    (BatchRan /\ pc = "done") => (summary /\ entered = Len(file_mappings))

\* C3: when clean_and_upload ends because delete_attachments did not find the
\* issue, it made no add_attachment call and its caller is given the failure.
C3_NotFoundReported ==
    (op = "clean_and_upload" /\ pc = "op_ret" /\ da_result = "False") =>
        /\ SelectOps(OpCalls, {"add_attachment"}) = <<>>
        /\ op_result = "False"

\* The attachments of the fetched issue whose delete call returned False.
RECURSIVE Survivors(_, _)
Survivors(atts, dels) ==
    IF atts = <<>> \/ dels = <<>> THEN <<>>
    ELSE IF Head(dels).out = "False"
         THEN <<Head(atts)>> \o Survivors(Tail(atts), Tail(dels))
         ELSE Survivors(Tail(atts), Tail(dels))

\* C4: once delete_attachments has returned, it returned True exactly when the
\* issue was found, and on a found issue it called delete_attachment once for
\* every attachment of the issue, in order, whatever the earlier deletes gave;
\* the attachments left on the issue are those whose delete failed.
C4_DeleteAllAttachments ==
    (op \in {"delete_attachments", "clean_and_upload"} /\ da_result # "none") =>
        LET dels == SelectOps(OpCalls, {"delete_attachment"})
        IN /\ (da_result = "True") <=> IssueFound
           /\ IssueFound => Keys(dels) = issue_atts
           /\ (IssueFound /\ SelectOps(OpCalls, {"add_attachment"}) = <<>>)
                  => jira[op_ticket] = Survivors(issue_atts, dels)

\* C4 witness: attachments [a, b], the delete of a fails, the delete of b
\* succeeds: True is returned, b is gone and a remains.
C4_Witness ==
    /\ op = "delete_attachments" /\ pc = "op_ret"
    /\ op_result = "True"
    /\ Len(issue_atts) = 2
    /\ Ops(OpCalls) = <<"get_issue", "delete_attachment", "delete_attachment">>
    /\ OpCalls[2].out = "False" /\ OpCalls[3].out = "True"
    /\ jira[op_ticket] = <<issue_atts[1]>>

\* C5: no single-issue operation propagates an exception to its caller.
C5_NoExceptionPropagates ==
    op \in {"clean_and_upload", "upload_attachment", "delete_attachments",
            "add_comment_to_issue", "delete_comment_from_issue"}
        => op_result # "raised"

\* The attachment lists get_attachments handed to the download loop, in call
\* order, joined: the server's list for a call that succeeded, none otherwise.
RECURSIVE ExpectedDownloads(_)
ExpectedDownloads(cs) ==
    IF cs = <<>> THEN <<>>
    ELSE (IF Head(cs).op = "get_attachments" /\ Head(cs).out = "ok"
          THEN jira[Head(cs).key] ELSE <<>>) \o ExpectedDownloads(Tail(cs))

\* The tickets of the rows with a non-empty Ticket, in row order.
RECURSIVE RowTickets(_)
RowTickets(rs) ==
    IF rs = <<>> THEN <<>>
    ELSE (IF Head(rs).Ticket # "" THEN <<Head(rs).Ticket>> ELSE <<>>)
         \o RowTickets(Tail(rs))

\* C6: when the download batch over a readable CSV has ended, every row with
\* a non-empty Ticket had its attachment list fetched, in row order, and
\* download_attachment was called for every attachment of every fetched
\* list, in order, whatever the earlier downloads gave; no exception left
\* the operation, and only attachments that were listed produced a file.
C6_DownloadContinues ==
    (command = "download-attachments" /\ ConfigOk /\ ticket_file_exists /\ pc = "done") =>
        /\ exc = "none" /\ op_result = "None"
        /\ Keys(SelectOps(calls, {"get_attachments"})) = RowTickets(rows)
        /\ dl_log = ExpectedDownloads(calls)
        /\ Keys(SelectOps(calls, {"download_attachment"})) = dl_log
        /\ written \subseteq {Filename(dl_log[i]) : i \in 1..Len(dl_log)}

\* C6 witness: a finished download batch in which a download failed, a later
\* attachment of the same ticket was still downloaded, a later row was still
\* fetched, and that row's ticket had no attachment.
C6_Witness ==
    /\ command = "download-attachments" /\ pc = "done"
    /\ Len(calls) = 4
    /\ Ops(calls) = <<"get_attachments", "download_attachment",
                      "download_attachment", "get_attachments">>
    /\ calls[2].out = "fail" /\ calls[3].out = "ok"
    /\ calls[4].out = "ok" /\ jira[calls[4].key] = <<>>
    /\ Cardinality(written) = 1

\* C7: an upload batch whose ticket file does not exist makes no gateway
\* call at any point, and ends in its FileNotFoundError without a summary.
C7_MissingTicketFileNoCalls ==
    (command = "upload-multiple" /\ ConfigOk /\ ~ticket_file_exists) =>
        /\ calls = <<>>
        /\ pc \in {"except", "done"} => exc = "FileNotFoundError"
        /\ pc = "done" => (error_printed = "FileNotFoundError" /\ ~summary)

\* C7 witness: such a run has ended, after constructing its client.
C7_Witness ==
    /\ command = "upload-multiple" /\ ConfigOk /\ ~ticket_file_exists
    /\ client /\ pc = "done" /\ error_printed = "FileNotFoundError"

\* The skipped list the batch should hold after n entries: the entries among
\* the first n whose file is absent, in order.
RECURSIVE SkippedOf(_, _)
SkippedOf(m, n) ==
    IF n = 0 THEN <<>>
    ELSE SkippedOf(m, n - 1) \o (IF m[n][1] \in files THEN <<>> ELSE <<m[n]>>)

\* C8: between iterations and at the end of the upload batch, every entry
\* processed so far is classified exactly once: uploaded_count +
\* skipped_count is the number of entries entered, skipped_count is the
\* length of the skipped list, the skipped list holds the skipped pairs in
\* encounter order, and at the end every mapping entry is classified.
C8_OneClassification ==
    (BatchRan /\ pc \in {"loop", "done"}) =>
        /\ uploaded_count + skipped_count = entered
        /\ skipped_count = Len(skipped_entries)
        /\ skipped_entries = SkippedOf(file_mappings, entered)
        /\ pc = "done" => uploaded_count + skipped_count = Len(file_mappings)

\* The ticket of the last valid row that names identifier f.
LastTicketOf(f) ==
    LET last == CHOOSE i \in ValidRowIdx :
                    /\ rows[i].Fn = f
                    /\ \A j \in ValidRowIdx : rows[j].Fn = f => j <= i
    IN rows[last].Ticket

\* C9: once the ticket file has been read, the table holds one entry for
\* every identifier of a valid row and nothing else, each mapped to the
\* ticket of the last valid row naming it; and a CSV without a valid row
\* ends the run in a ValueError with no entry processed and no gateway call.
C9_MappingTable ==
    (command = "upload-multiple" /\ ConfigOk /\ ticket_file_exists /\ folder_exists
     /\ pc \notin {"start", "parse"}) =>
        /\ {file_mappings[i][1] : i \in 1..Len(file_mappings)}
               = {rows[i].Fn : i \in ValidRowIdx}
        /\ \A i, j \in 1..Len(file_mappings) :
               file_mappings[i][1] = file_mappings[j][1] => i = j
        /\ \A i \in 1..Len(file_mappings) :
               file_mappings[i][2] = LastTicketOf(file_mappings[i][1])
        /\ ValidRowIdx = {} =>
               /\ pc \in {"except", "done"} /\ exc = "ValueError"
               /\ entered = 0 /\ calls = <<>> /\ ~summary
        /\ ValidRowIdx # {} => exc # "ValueError"

\* C9 witness: two valid rows share an identifier and name different
\* tickets; the table maps the identifier to the later row's ticket.
C9_Witness ==
    /\ command = "upload-multiple" /\ pc = "loop"
    /\ Len(rows) = 2 /\ ValidRowIdx = {1, 2}
    /\ rows[1].Fn = rows[2].Fn /\ rows[1].Ticket # rows[2].Ticket
    /\ file_mappings = <<<<rows[2].Fn, rows[2].Ticket>>>>

\* C10: a clean_and_upload that found its issue with k attachments and is
\* past its upload step made exactly these calls: get_issue, then k
\* delete_attachment calls, one per attachment in order, then one
\* add_attachment; before the upload step it made no add_attachment call.
C10_DeletesThenOneUpload ==
    (op = "clean_and_upload" /\ IssueFound) =>
        LET k == Len(issue_atts)
        IN IF pc \in {"da_del", "ua_add"}
           THEN SelectOps(OpCalls, {"add_attachment"}) = <<>>
           ELSE /\ Len(OpCalls) = k + 2
                /\ \A i \in 2..(k + 1) : OpCalls[i].op = "delete_attachment"
                                         /\ OpCalls[i].key = issue_atts[i - 1]
                /\ OpCalls[k + 2].op = "add_attachment"

\* C10 witness: a finished batch of two entries, the first on an issue
\* without attachments (no delete, one upload), the second on an issue with
\* two (two deletes, then one upload).
C10_Witness ==
    /\ command = "upload-multiple" /\ pc = "done" /\ summary
    /\ Ops(calls) = <<"get_issue", "add_attachment", "get_issue",
                      "delete_attachment", "delete_attachment", "add_attachment">>
    /\ uploaded_count = 2

\* C11: a run whose config.json lacks a required key, or holds it empty,
\* never constructs a client and never makes a gateway call; it raises a
\* ValueError that enumerates exactly those keys, and the command ends
\* having printed that error and nothing else done.
C11_ConfigFailsFast ==
    LET missing == {key \in RequiredKeys : config[key] \in {"absent", ""}}
    IN (config_exists /\ missing # {}) =>
          /\ ~client /\ calls = <<>> /\ op = "none" /\ entered = 0 /\ ~summary
          /\ pc # "start" => (exc = "ValueError" /\ missing_reported = missing)
          /\ pc = "done" => error_printed = "ValueError"

\* C11 witness: a batch run with work to do has ended on a configuration
\* with one key absent and another empty, both enumerated.
C11_Witness ==
    /\ command = "upload-multiple" /\ pc = "done" /\ config_exists
    /\ config["jira_base_url"] = "set"
    /\ config["jira_username"] = "absent"
    /\ config["jira_api_token"] = ""
    /\ rows # <<>>
    /\ missing_reported = {"jira_username", "jira_api_token"}
    /\ error_printed = "ValueError"

\* C12: no exception escapes a command handler, and every run goes on until
\* its handler has returned: a run that can take no further step is at its
\* normal end, and an exception raised on the way was printed by the handler.
C12_HandlerReturnsNormally ==
    /\ pc # "escaped"
    /\ pc # "done" => ENABLED Next
    /\ (pc = "done" /\ exc # "none") => error_printed = exc

\* C12 witness: a single-issue handler has returned after a gateway call
\* raised inside its operation and the exception was printed.
C12_Witness ==
    /\ command = "delete-comment" /\ pc = "done"
    /\ op_result = "raised" /\ exc = "ConnectionError"
    /\ error_printed = "ConnectionError"

\* The mapping entries among the first n whose file is on disk.
PresentAmong(n) == {i \in 1..n : file_mappings[i][1] \in files}

\* C13: in the upload batch every completed entry whose file exists counts
\* as uploaded, whatever clean_and_upload did: uploaded_count is the number
\* of such entries, none of them is in the skipped list, and when
\* clean_and_upload has returned, the count goes up at the next step even if
\* the issue was not found or add_attachment gave a failure.
C13_UploadedWithoutInspection ==
    BatchRan =>
        /\ uploaded_count = Cardinality(PresentAmong(idx))
        /\ \A i \in 1..Len(skipped_entries) : skipped_entries[i][1] \notin files
        /\ pc = "op_ret" => /\ op_result = "None"
                            /\ ENABLED CountUploaded

\* C13 witness: a finished batch that reports two uploads although the first
\* entry's issue was not found (no add_attachment call) and the second
\* entry's add_attachment returned a failure; nothing was attached.
C13_Witness ==
    /\ command = "upload-multiple" /\ pc = "done" /\ summary
    /\ calls = <<Call("get_issue", "T2", "none"), Call("get_issue", "T1", "ok"),
                 Call("add_attachment", "T1", "none")>>
    /\ uploaded_count = 2 /\ skipped_entries = <<>>
    /\ jira["T1"] = <<>> /\ jira["T2"] = <<>>

\* Every gateway call so far succeeded.
AllCallsOk == \A i \in 1..Len(calls) : calls[i].out \in {"ok", "True"}

\* The last mapping entry with a present file that names ticket t.
LastPresentFor(t) ==
    CHOOSE i \in PresentAmong(Len(file_mappings)) :
        /\ file_mappings[i][2] = t
        /\ \A j \in PresentAmong(Len(file_mappings)) :
               file_mappings[j][2] = t => j <= i

\* C14: after an upload batch in which every gateway call succeeded, every
\* ticket named by an entry with a present file holds exactly one
\* attachment, the file of the last such entry; an earlier entry's upload to
\* the same ticket has been deleted by the later one, and the summary still
\* counts every such entry as uploaded.
C14_LaterEntryReplacesEarlier ==
    (BatchRan /\ pc = "done" /\ summary /\ AllCallsOk) =>
        /\ uploaded_count = Cardinality(PresentAmong(Len(file_mappings)))
        /\ \A i \in PresentAmong(Len(file_mappings)) :
               LET t == file_mappings[i][2]
               IN jira[t] = << <<t, file_mappings[LastPresentFor(t)][1]>> >>

\* C14 witness: identifiers f and g, both files present, both mapped to T1;
\* the batch ends with both counted and only g's file on T1, f's upload
\* having been deleted by a delete_attachment call.
C14_Witness ==
    /\ command = "upload-multiple" /\ pc = "done" /\ summary /\ AllCallsOk
    /\ file_mappings = << <<"f", "T1">>, <<"g", "T1">> >>
    /\ files = {"f", "g"}
    /\ uploaded_count = 2
    /\ calls[Len(calls) - 1] = Call("delete_attachment", <<"T1", "f">>, "True")
    /\ jira["T1"] = << <<"T1", "g">> >>

====
